---- MODULE Spec2Model ----
(***************************************************************************)
(* Model of svm-loader: the line parser (parse_line), the target readers,  *)
(* the dense and sparse feature parsers, and the Reader iterator.          *)
(*                                                                         *)
(* Text is a sequence of one-character strings.  Option<T> is <<>> for     *)
(* None and <<v>> for Some(v).  An f32 is the record [neg, num, scale]     *)
(* standing for (-1)^neg * num / 10^scale; a usize is a natural number     *)
(* not above UsizeMax.                                                     *)
(***************************************************************************)
EXTENDS Integers, Sequences, FiniteSets, TLC

VARIABLES tr, dp, src, rows, pos, pc, tl, res, ret, pulled, out, startPos

vars == <<tr, dp, src, rows, pos, pc, tl, res, ret, pulled, out, startPos>>

-----------------------------------------------------------------------------
(* Bounds of the model *)

\* number of feature tokens in the generated lines
MaxFeat == 2
\* number of entries of a multi-line source
MaxLines == 3
\* width of usize in the model, in bits
UsizeBits == 16

UsizeMax == 2^UsizeBits - 1

-----------------------------------------------------------------------------
(* Option<T> *)

None == <<>>
Some(v) == <<v>>
IsSome(o) == o # <<>>
Unwrap(o) == o[1]

-----------------------------------------------------------------------------
(* str primitives used by the parsers *)

DigitChars == <<"0", "1", "2", "3", "4", "5", "6", "7", "8", "9">>
IsDigit(c) == \E d \in 1..10 : DigitChars[d] = c
DigitVal(c) == (CHOOSE d \in 1..10 : DigitChars[d] = c) - 1

IsWhitespace(c) == c \in {" ", "\t", "\n"}

StartsWith(s, p) == Len(s) >= Len(p) /\ SubSeq(s, 1, Len(p)) = p

\* str::split(c): the pieces between the occurrences of c, at least one
RECURSIVE SplitFrom(_, _, _, _, _)
SplitFrom(s, c, i, cur, acc) ==
    IF i > Len(s) THEN Append(acc, cur)
    ELSE IF s[i] = c THEN SplitFrom(s, c, i + 1, <<>>, Append(acc, cur))
    ELSE SplitFrom(s, c, i + 1, Append(cur, s[i]), acc)

Split(s, c) == SplitFrom(s, c, 1, <<>>, <<>>)

\* str::trim()
RECURSIVE TrimStart(_)
TrimStart(s) ==
    IF s # <<>> /\ IsWhitespace(s[1]) THEN TrimStart(Tail(s)) ELSE s

RECURSIVE TrimEnd(_)
TrimEnd(s) ==
    IF s # <<>> /\ IsWhitespace(s[Len(s)])
    THEN TrimEnd(SubSeq(s, 1, Len(s) - 1)) ELSE s

Trim(s) == TrimEnd(TrimStart(s))

\* str::split_whitespace(): the non-empty runs of non-whitespace
RECURSIVE SplitWsFrom(_, _, _, _)
SplitWsFrom(s, i, cur, acc) ==
    IF i > Len(s) THEN (IF cur = <<>> THEN acc ELSE Append(acc, cur))
    ELSE IF IsWhitespace(s[i])
         THEN SplitWsFrom(s, i + 1, <<>>,
                          IF cur = <<>> THEN acc ELSE Append(acc, cur))
         ELSE SplitWsFrom(s, i + 1, Append(cur, s[i]), acc)

SplitWhitespace(s) == SplitWsFrom(s, 1, <<>>, <<>>)

\* <usize as FromStr>: an optional '+', then one or more digits, no overflow
RECURSIVE UsizeDigits(_, _, _)
UsizeDigits(s, i, acc) ==
    IF i > Len(s) THEN Some(acc)
    ELSE IF ~IsDigit(s[i]) THEN None
    ELSE IF acc * 10 + DigitVal(s[i]) > UsizeMax THEN None
    ELSE UsizeDigits(s, i + 1, acc * 10 + DigitVal(s[i]))

ParseUsize(s) ==
    LET body == IF s # <<>> /\ s[1] = "+" THEN Tail(s) ELSE s
    IN  IF body = <<>> THEN None ELSE UsizeDigits(body, 1, 0)

\* <f32 as FromStr> on the model's alphabet: an optional sign, digits with
\* at most one '.', at least one digit (the alphabet has no exponent, and
\* cannot spell inf or nan)
RECURSIVE F32Digits(_, _, _, _, _)
F32Digits(s, i, num, scale, dot) ==
    IF i > Len(s) THEN Some([num |-> num, scale |-> scale])
    ELSE IF s[i] = "." THEN
        (IF dot THEN None ELSE F32Digits(s, i + 1, num, scale, TRUE))
    ELSE IF ~IsDigit(s[i]) THEN None
    ELSE F32Digits(s, i + 1, num * 10 + DigitVal(s[i]),
                   IF dot THEN scale + 1 ELSE scale, dot)

ParseF32(s) ==
    LET neg  == s # <<>> /\ s[1] = "-"
        body == IF s # <<>> /\ s[1] \in {"+", "-"} THEN Tail(s) ELSE s
        m    == F32Digits(body, 1, 0, 0, FALSE)
    IN  IF \A i \in 1..Len(body) : ~IsDigit(body[i]) THEN None
        ELSE IF m = None THEN None
        ELSE Some([neg |-> neg, num |-> m[1].num, scale |-> m[1].scale])

\* x == 0.0 on f32 (true of -0.0 too)
IsZeroF32(v) == v.num = 0

-----------------------------------------------------------------------------
(* lib.rs: the target readers *)

TargetReaders ==
    {"Regression", "BinaryClassification", "DisjointClassification",
     "MultiLabelClassification", "Tags"}

RegressionProcess(data) == ParseF32(data)

BinaryProcess(data) ==
    IF data = <<"-", "1">> THEN Some(FALSE)
    ELSE IF data = <<"1">> THEN Some(TRUE)
    ELSE None

DisjointProcess(data) == ParseUsize(data)

MultiLabelProcess(data) ==
    LET pieces == Split(data, ",")
    IN  Some({Unwrap(ParseUsize(pieces[i])) :
                i \in {j \in 1..Len(pieces) : IsSome(ParseUsize(pieces[j]))}})

TagsProcess(data) ==
    LET pieces == Split(data, ",")
    IN  Some({pieces[i] : i \in 1..Len(pieces)} \ {<<>>})

Process(t, data) ==
    CASE t = "Regression"               -> RegressionProcess(data)
      [] t = "BinaryClassification"     -> BinaryProcess(data)
      [] t = "DisjointClassification"   -> DisjointProcess(data)
      [] t = "MultiLabelClassification" -> MultiLabelProcess(data)
      [] t = "Tags"                     -> TagsProcess(data)

-----------------------------------------------------------------------------
(* types.rs: the feature parsers *)

\* mutant: the tokens that do not parse are left out
CollectLenient(opts) ==
    LET kept == SelectSeq(opts, LAMBDA o : o # None)
    IN  Some([i \in 1..Len(kept) |-> Unwrap(kept[i])])

\* Iterator<Item = Option<T>>::collect::<Option<Vec<T>>>()
Collect(opts) ==
    IF \E i \in 1..Len(opts) : opts[i] = None THEN None
    ELSE Some([i \in 1..Len(opts) |-> Unwrap(opts[i])])

\* the closure of DenseData::parse
DenseTok(x) ==
    LET ps == Split(x, ":")
    IN  ParseF32(ps[Len(ps)])

DenseParse(xs) == Collect([i \in 1..Len(xs) |-> DenseTok(xs[i])])

\* the closure of SparseData::parse
SparseTok(x) ==
    LET ps  == Split(x, ":")
        idx == ParseUsize(ps[1])
        v   == IF Len(ps) >= 2 THEN ParseF32(ps[2]) ELSE None
    IN  IF IsSome(idx) /\ IsSome(v) THEN Some(<<Unwrap(idx), Unwrap(v)>>)
        ELSE None

\* slice::sort_by_key(|x| x.0): a stable sort
RECURSIVE InsertByKey(_, _)
InsertByKey(sorted, e) ==
    IF sorted = <<>> THEN <<e>>
    ELSE IF sorted[Len(sorted)][1] <= e[1] THEN Append(sorted, e)
    ELSE Append(InsertByKey(SubSeq(sorted, 1, Len(sorted) - 1), e),
                sorted[Len(sorted)])

RECURSIVE SortByKey(_)
SortByKey(iv) ==
    IF iv = <<>> THEN <<>>
    ELSE InsertByKey(SortByKey(SubSeq(iv, 1, Len(iv) - 1)), iv[Len(iv)])

\* Vec::dedup_by_key(|x| x.0): of each run of equal keys the first stays
RECURSIVE DedupByKey(_)
DedupByKey(iv) ==
    IF Len(iv) <= 1 THEN iv
    ELSE LET init == DedupByKey(SubSeq(iv, 1, Len(iv) - 1))
         IN  IF init[Len(init)][1] = iv[Len(iv)][1] THEN init
             ELSE Append(init, iv[Len(iv)])

\* .filter(|x| x.0 < self.0 && x.1 != 0.0)
FilterPairs(dim, iv) ==
    SelectSeq(iv, LAMBDA x : x[1] < dim /\ ~IsZeroF32(x[2]))

\* mutant: the pairs are not sorted before dedup
SparseFinishUnsorted(dim, pairs) ==
    LET iv == FilterPairs(dim, DedupByKey(pairs))
    IN  [dim     |-> dim,
         indices |-> [i \in 1..Len(iv) |-> iv[i][1]],
         values  |-> [i \in 1..Len(iv) |-> iv[i][2]]]

\* mutant: the filter runs before the dedup
SparseFinishFilterFirst(dim, pairs) ==
    LET iv == DedupByKey(FilterPairs(dim, SortByKey(pairs)))
    IN  [dim     |-> dim,
         indices |-> [i \in 1..Len(iv) |-> iv[i][1]],
         values  |-> [i \in 1..Len(iv) |-> iv[i][2]]]

SparseFinish(dim, pairs) ==
    LET iv == FilterPairs(dim, DedupByKey(SortByKey(pairs)))
    IN  [dim     |-> dim,
         indices |-> [i \in 1..Len(iv) |-> iv[i][1]],
         values  |-> [i \in 1..Len(iv) |-> iv[i][2]]]

SparseParse(dim, xs) ==
    LET ivs == Collect([i \in 1..Len(xs) |-> SparseTok(xs[i])])
    IN  IF ivs = None THEN None ELSE Some(SparseFinish(dim, Unwrap(ivs)))

DenseData == [kind |-> "Dense", dim |-> 0]
SparseData(dim) == [kind |-> "Sparse", dim |-> dim]

Parse(d, xs) ==
    IF d.kind = "Dense" THEN DenseParse(xs) ELSE SparseParse(d.dim, xs)

-----------------------------------------------------------------------------
(* lib.rs: parse_line *)

\* mutant: a leading space is not looked at
HasTargetAlways(line) == TRUE

HasTarget(line) == ~StartsWith(line, <<" ">>)

\* line.split('#'): the first piece, and the second one if there is one
DataPart(line) == Split(line, "#")[1]

CommentOf(line) ==
    LET data == Split(line, "#")
    IN  IF Len(data) >= 2 THEN Some(data[2]) ELSE None

Pieces(line) == SplitWhitespace(Trim(DataPart(line)))

\* the argument of tr.process, None when pieces.next() is None
TargetToken(line) ==
    IF HasTarget(line)
    THEN (IF Pieces(line) = <<>> THEN None ELSE Some(Pieces(line)[1]))
    ELSE Some(<<>>)

TargetOf(t, line) ==
    IF TargetToken(line) = None THEN None
    ELSE Process(t, Unwrap(TargetToken(line)))

\* pieces after the target was taken
AfterTarget(line) ==
    IF HasTarget(line) /\ Pieces(line) # <<>> THEN Tail(Pieces(line))
    ELSE Pieces(line)

MaybeQid(line) ==
    IF AfterTarget(line) = <<>> THEN None ELSE Some(AfterTarget(line)[1])

QidOfToken(qid) ==
    IF StartsWith(qid, <<"q", "i", "d", ":">>)
    THEN ParseUsize(Split(qid, ":")[2])
    ELSE None

QidOf(line) ==
    IF MaybeQid(line) = None THEN None ELSE QidOfToken(Unwrap(MaybeQid(line)))

\* IterCons(None, pieces) or IterCons(maybe_qid, pieces), as a sequence
Peeked(line) ==
    IF IsSome(QidOf(line)) THEN Tail(AfterTarget(line))
    ELSE AfterTarget(line)

VecOf(d, line) == Parse(d, Peeked(line))

Row(y, x, qid, comment) == [y |-> y, x |-> x, qid |-> qid, comment |-> comment]

parse_line(t, d, line) ==
    LET target == TargetOf(t, line)
        vec    == VecOf(d, line)
    IN  IF IsSome(target) /\ IsSome(vec)
        THEN Some(Row(Unwrap(target), Unwrap(vec), QidOf(line), CommentOf(line)))
        ELSE None

-----------------------------------------------------------------------------
(* The inputs: lines of the svmlight format, built from tokens *)

RECURSIVE Join(_)
Join(toks) ==
    IF toks = <<>> THEN <<>>
    ELSE IF Len(toks) = 1 THEN toks[1]
    ELSE toks[1] \o <<" ">> \o Join(Tail(toks))

Leads == {<<>>, <<" ">>}

TargetToks ==
    {<<"1">>, <<"-", "1">>, <<"3", ",", "5", ",", "3", ",", "x">>,
     <<"0", ".", "5">>, <<"a">>}

QidToks ==
    {<<"q", "i", "d", ":", "7">>,
     <<"q", "i", "d", ":", "1", ":", "2">>,
     <<"q", "i", "d", ":", "+", "3">>,
     <<"q", "i", "d", ":", "-", "1">>,
     <<"q", "i", "d", ":", "9", "9", "9", "9", "9">>,
     <<"q", "i", "d", ":", "x">>,
     <<"q", "i", "d", ":">>,
     <<"q", "i", "d">>}

FeatToks ==
    {<<"0", ":", "5">>, <<"1", ":", "0">>, <<"1", ":", "2">>,
     <<"3", ":", "1">>, <<"1", ":", "-", "0", ".", "0">>,
     <<"2">>, <<"a">>}

Comments ==
    {<<"#">>, <<"#", "a", "#", "b">>,
     <<" ", "#", " ", "h", " ", "#", "#", "\n">>}

\* the sequences of at most n tokens of a set
RECURSIVE TokSeqs(_, _)
TokSeqs(toks, n) ==
    IF n = 0 THEN {<<>>}
    ELSE LET shorter == TokSeqs(toks, n - 1)
         IN  shorter \cup {Append(q, t) : q \in shorter, t \in toks}

Opt(toks) == {<<>>} \cup {<<t>> : t \in toks}

\* target, qid and comment in every combination, at most one feature
BroadLines ==
    {lead \o Join(tg \o q \o fs) \o c :
        lead \in Leads, tg \in Opt(TargetToks), q \in Opt(QidToks),
        fs \in Opt({<<"0", ":", "5">>, <<"2">>, <<"a">>}),
        c \in {<<>>} \cup Comments}

\* a target and up to MaxFeat features
DeepLines ==
    {Join(<<tg>> \o fs) \o <<"\n">> :
        tg \in {<<"1">>, <<"a">>}, fs \in TokSeqs(FeatToks, MaxFeat)}

\* the lines of tests::parse_line_1 and tests::parse_bool_1
TestLines ==
    {<<"1", " ", "q", "i", "d", ":", "1", "2", "3", "4", " ",
       "0", ":", "-", "1", "3", " ", "1", "1", ":", "1", "0", " ",
       "#", " ", "h", "e", "l", "l", "o">>,
     <<"-", "1", " ", "q", "i", "d", ":", "1", "2", "3", "4", " ",
       "0", ":", "-", "1", "3", " ", "1", "1", ":", "1", "0", " ",
       "#", " ", "h", "e", "l", "l", "o">>}

\* blank lines
BlankLines == {<<"\n">>, <<" ", "\n">>}

\* read_line never hands over an empty line
ParseLines ==
    (BroadLines \cup DeepLines \cup TestLines \cup BlankLines) \ {<<>>}

\* a source entry: a line of text, or bytes that read_line rejects
Line(text) == [ok |-> TRUE, text |-> text]
BadRead == [ok |-> FALSE, text |-> <<>>]

ReaderEntries ==
    {Line(<<"1", " ", "1", ":", "2", "\n">>),
     Line(<<"-", "1", " ", "q", "i", "d", ":", "7", " ", "0", ":", "5",
            " ", "#", "h", "\n">>),
     Line(<<"1", " ", "a", "\n">>),
     Line(<<" ", "0", ":", "5", "\n">>),
     BadRead}

DataParsers == {DenseData, SparseData(2)}

-----------------------------------------------------------------------------
(* lib.rs: load and Reader *)

TypeOK ==
    /\ tr \in TargetReaders
    /\ dp \in DataParsers
    /\ pos \in 0..Len(src)
    /\ pc \in {"idle", "loop"}
    /\ startPos \in 0..Len(src)
    /\ pulled \in BOOLEAN
    /\ ret \in {None} \cup {Some(out[i]) : i \in 1..Len(out)}

\* parse_line is a pure function of the decoders and the line: rows[i] is
\* what it returns for line i of the source, tabulated once.
\* ret is what the last call of next() returned, once pulled is TRUE; out is
\* the Rows returned so far; startPos is pos at the last call of next()

\* load(): the Reader over an opened source, nothing read yet
Load(sources) ==
    /\ tr \in TargetReaders
    /\ dp \in DataParsers
    /\ src \in sources
    /\ rows = [i \in 1..Len(src) |-> parse_line(tr, dp, src[i].text)]
    /\ pos = 0
    /\ pc = "idle"
    /\ tl = <<>>
    /\ res = None
    /\ ret = None
    /\ pulled = FALSE
    /\ out = <<>>
    /\ startPos = 0

ReaderSources == TokSeqs(ReaderEntries, MaxLines)

Init == Load({<<Line(l)>> : l \in ParseLines} \cup ReaderSources)

\* the consumer calls next()
Call ==
    /\ pc = "idle"
    /\ pc' = "loop"
    /\ startPos' = pos
    /\ UNCHANGED <<tr, dp, src, rows, pos, tl, res, ret, pulled, out>>

\* read_line returns Ok(0): return None
ReadEof ==
    /\ pc = "loop"
    /\ pos = Len(src)
    /\ tl' = <<>>
    /\ ret' = None
    /\ pulled' = TRUE
    /\ pc' = "idle"
    /\ UNCHANGED <<tr, dp, src, rows, pos, res, out, startPos>>

\* read_line returns Err, having consumed the bytes of the line: return None
ReadErr ==
    /\ pc = "loop"
    /\ pos < Len(src)
    /\ ~src[pos + 1].ok
    /\ pos' = pos + 1
    /\ tl' = <<>>
    /\ ret' = None
    /\ pulled' = TRUE
    /\ pc' = "idle"
    /\ UNCHANGED <<tr, dp, src, rows, res, out, startPos>>

\* mutant: a line that does not parse ends the pull
ReadSkipReturns ==
    /\ pc = "loop"
    /\ pos < Len(src)
    /\ src[pos + 1].ok
    /\ rows[pos + 1] = None
    /\ pos' = pos + 1
    /\ tl' = src[pos + 1].text
    /\ res' = None
    /\ ret' = None
    /\ pulled' = TRUE
    /\ pc' = "idle"
    /\ UNCHANGED <<tr, dp, src, rows, out, startPos>>

\* mutant: a line that does not parse is read again
ReadSkipStuck ==
    /\ pc = "loop"
    /\ pos < Len(src)
    /\ src[pos + 1].ok
    /\ rows[pos + 1] = None
    /\ tl' = src[pos + 1].text
    /\ res' = None
    /\ UNCHANGED <<tr, dp, src, rows, pos, pc, ret, pulled, out, startPos>>

\* read_line returns a line and parse_line nothing: loop
ReadSkip ==
    /\ pc = "loop"
    /\ pos < Len(src)
    /\ src[pos + 1].ok
    /\ rows[pos + 1] = None
    /\ pos' = pos + 1
    /\ tl' = src[pos + 1].text
    /\ res' = None
    /\ UNCHANGED <<tr, dp, src, rows, pc, ret, pulled, out, startPos>>

\* read_line returns a line and parse_line a Row: return it
ReadYield ==
    /\ pc = "loop"
    /\ pos < Len(src)
    /\ src[pos + 1].ok
    /\ rows[pos + 1] # None
    /\ pos' = pos + 1
    /\ tl' = src[pos + 1].text
    /\ res' = rows[pos + 1]
    /\ ret' = res'
    /\ out' = Append(out, Unwrap(res'))
    /\ pulled' = TRUE
    /\ pc' = "idle"
    /\ UNCHANGED <<tr, dp, src, rows, startPos>>

Next == Call \/ ReadEof \/ ReadErr \/ ReadSkip \/ ReadYield

Spec == Init /\ [][Next]_vars

\* the consumer keeps pulling and the loop keeps running
LiveInit == Load(ReaderSources)

LiveSpec == LiveInit /\ [][Next]_vars /\ WF_vars(Next)

-----------------------------------------------------------------------------
(* What the claims are stated over *)

\* tl holds a line that was read, and res what parse_line made of it
Parsed == tl # <<>>

\* the last line read gave a Row
Yielded == Parsed /\ IsSome(res)

NoReadError == \A i \in 1..pos : src[i].ok

-----------------------------------------------------------------------------
\* C1: without read errors the Rows returned so far are exactly the Rows
\* parse_line gives for the lines read so far, in source order, failing lines
\* being skipped; a pull returns nothing only when the source is exhausted,
\* and a pull that returns a Row returns the Row of the last line read.
C1_RowsAreParsedLines ==
    LET RECURSIVE Rows(_)
        Rows(n) ==
            IF n = 0 THEN <<>>
            ELSE IF IsSome(parse_line(tr, dp, src[n].text))
                 THEN Append(Rows(n - 1), Unwrap(parse_line(tr, dp, src[n].text)))
                 ELSE Rows(n - 1)
    IN  NoReadError =>
            /\ out = Rows(pos)
            /\ (pc = "idle" /\ pulled /\ ret = None) => pos = Len(src)
            /\ (pc = "idle" /\ IsSome(ret)) =>
                    ret = parse_line(tr, dp, src[pos].text)

\* a Row was returned for a line that follows a line that did not parse
C1_Witness ==
    /\ NoReadError
    /\ pc = "idle"
    /\ IsSome(ret)
    /\ Len(out) >= 2
    /\ \E i \in 1..(pos - 1) : parse_line(tr, dp, src[i].text) = None

\* C2: once a pull has returned nothing, every later pull returns nothing.
C2_ExhaustedIsTerminal == [][(pulled /\ ret = None) => ret' = None]_vars

\* C3: the comment of a Row is present iff the line has a '#', and is then
\* the whole text after the first '#'.
C3_CommentIsRestOfLine ==
    LET hashes == {i \in 1..Len(tl) : tl[i] = "#"}
        first  == CHOOSE i \in hashes : \A j \in hashes : i <= j
    IN  Yielded =>
            Unwrap(res).comment =
                IF hashes = {} THEN None
                ELSE Some(SubSeq(tl, first + 1, Len(tl)))

\* C4: the token after the target is taken as the group id exactly when it
\* is qid:<digits> with <digits> an unsigned integer; any other token is the
\* first feature token and the group id is absent.
C4_QidOnlyFromQidDigits ==
    LET toks   == AfterTarget(tl)
        cand   == toks[1]
        digits == SubSeq(cand, 5, Len(cand))
        isQid  == /\ StartsWith(cand, <<"q", "i", "d", ":">>)
                  /\ digits # <<>>
                  /\ \A i \in 1..Len(digits) : IsDigit(digits[i])
                  /\ IsSome(ParseUsize(digits))
        row    == Unwrap(res)
    IN  (Yielded /\ toks # <<>>) =>
            IF isQid
            THEN /\ row.qid = ParseUsize(digits)
                 /\ Some(row.x) = Parse(dp, Tail(toks))
            ELSE /\ row.qid = None
                 /\ Some(row.x) = Parse(dp, toks)

\* C5: a sparse container has as many indices as values, strictly
\* increasing indices, all below the dimension, and no zero value.
C5_SparseInvariants ==
    (Yielded /\ dp.kind = "Sparse") =>
        LET sp == Unwrap(res).x
        IN  /\ Len(sp.indices) = Len(sp.values)
            /\ \A i \in 1..(Len(sp.indices) - 1) :
                    sp.indices[i] < sp.indices[i + 1]
            /\ \A i \in 1..Len(sp.indices) : sp.indices[i] < sp.dim
            /\ \A i \in 1..Len(sp.values) : ~IsZeroF32(sp.values[i])

\* two indices were stored, from tokens that came in descending order
C5_Witness ==
    /\ Yielded
    /\ dp.kind = "Sparse"
    /\ Len(Unwrap(res).x.indices) = 2
    /\ Len(Peeked(tl)) = 2
    /\ Unwrap(SparseTok(Peeked(tl)[1]))[1] > Unwrap(SparseTok(Peeked(tl)[2]))[1]

\* C6: a line gives a Row iff its target decodes and every feature token
\* decodes; a dense Row has one value per feature token.
C6_AllOrNothing ==
    LET feats == Peeked(tl)
        tokOK(t) == IF dp.kind = "Dense" THEN IsSome(DenseTok(t))
                    ELSE IsSome(SparseTok(t))
    IN  Parsed =>
            /\ IsSome(res) <=>
                    /\ IsSome(TargetOf(tr, tl))
                    /\ \A i \in 1..Len(feats) : tokOK(feats[i])
            /\ (IsSome(res) /\ dp.kind = "Dense") =>
                    Len(Unwrap(res).x) = Len(feats)

\* the target and the first feature token decode, the second does not:
\* nothing is yielded
C6_Witness ==
    /\ Parsed
    /\ res = None
    /\ IsSome(TargetOf(tr, tl))
    /\ Len(Peeked(tl)) = 2
    /\ IsSome(Parse(dp, <<Peeked(tl)[1]>>))
    /\ Parse(dp, <<Peeked(tl)[2]>>) = None

\* C7: a line whose qid token starts with qid: but carries a number that is
\* not an unsigned integer yields no Row, under either feature parser.
C7_BadQidDropsLine ==
    LET toks == AfterTarget(tl)
    IN  (/\ Parsed
         /\ toks # <<>>
         /\ StartsWith(toks[1], <<"q", "i", "d", ":">>)
         /\ ParseUsize(Split(toks[1], ":")[2]) = None) => res = None

\* C8: a line that begins with a space has no target token: the target is
\* decoded from "", the first token is the qid candidate, the others are
\* features; regression, binary and disjoint classification yield nothing.
C8_LeadingSpaceNoTarget ==
    LET toks == SplitWhitespace(Trim(DataPart(tl)))
        qid  == IF toks = <<>> THEN None ELSE QidOfToken(toks[1])
        row  == Unwrap(res)
    IN  (Parsed /\ tl[1] = " ") =>
            /\ tr \in {"Regression", "BinaryClassification",
                       "DisjointClassification"} => res = None
            /\ IsSome(res) =>
                    /\ Some(row.y) = Process(tr, <<>>)
                    /\ row.qid = qid
                    /\ Some(row.x) =
                          Parse(dp, IF IsSome(qid) THEN Tail(toks) ELSE toks)

\* a line with a leading space, a qid and a feature gave a Row
C8_Witness ==
    /\ Yielded
    /\ tl[1] = " "
    /\ IsSome(Unwrap(res).qid)
    /\ Len(Peeked(tl)) >= 1

\* C9: every pull terminates, a pull that returns has consumed a line unless
\* the source was exhausted when it began, no more Rows are returned than
\* the source has lines, and eventually a pull returns nothing.
C9_FiniteSequence ==
    /\ [](/\ (pc = "idle" /\ pulled) =>
                (pos > startPos \/ startPos = Len(src))
          /\ Len(out) <= Len(src))
    /\ ((pc = "loop") ~> (pc = "idle"))
    /\ <>(pc = "idle" /\ pulled /\ ret = None)

\* a pull on the exhausted source returned nothing, after Rows were returned
C9_Witness ==
    /\ pc = "idle"
    /\ pulled
    /\ ret = None
    /\ startPos = Len(src)
    /\ Len(src) >= 2
    /\ Len(out) >= 1

\* C10: of the sparse tokens that carry one index only the first in line
\* order counts: the index is stored iff it is below the dimension and that
\* first value is not zero, and it is stored with that value.
C10_FirstDuplicateWins ==
    (Yielded /\ dp.kind = "Sparse") =>
        LET sp    == Unwrap(res).x
            feats == Peeked(tl)
            pair(i) == Unwrap(SparseTok(feats[i]))
            firsts == {i \in 1..Len(feats) :
                          \A j \in 1..(i - 1) : pair(j)[1] # pair(i)[1]}
        IN  /\ \A i \in firsts :
                  IF pair(i)[1] < sp.dim /\ ~IsZeroF32(pair(i)[2])
                  THEN \E k \in 1..Len(sp.indices) :
                          sp.indices[k] = pair(i)[1] /\ sp.values[k] = pair(i)[2]
                  ELSE \A k \in 1..Len(sp.indices) : sp.indices[k] # pair(i)[1]
            /\ \A k \in 1..Len(sp.indices) :
                  \E i \in firsts : sp.indices[k] = pair(i)[1]

\* an index came first with value zero, then again with a value that is not
\* zero, and is not stored
C10_Witness ==
    /\ Yielded
    /\ dp.kind = "Sparse"
    /\ \E i, j \in 1..Len(Peeked(tl)) :
          LET a == Unwrap(SparseTok(Peeked(tl)[i]))
              b == Unwrap(SparseTok(Peeked(tl)[j]))
          IN  /\ i < j
              /\ a[1] = b[1]
              /\ a[1] < dp.dim
              /\ IsZeroF32(a[2])
              /\ ~IsZeroF32(b[2])
              /\ \A k \in 1..Len(Unwrap(res).x.indices) :
                    Unwrap(res).x.indices[k] # a[1]

====
